---- MODULE Spec2Model ----
(***************************************************************************)
(* Binning2D<T> (pyinterp/binning.hpp): a grid of streaming accumulators   *)
(* fed by push(x, y, z, simple), reset by clear() and read by the          *)
(* statistic queries.                                                      *)
(*                                                                         *)
(* Numbers are exact: a value is a record [k, n, d], k = "num" for the     *)
(* rational n/d (d > 0, reduced), "nan" for NaN, "inf" for a signed        *)
(* infinity (n = 1 or -1) and "lim" for +/- the largest finite value of T  *)
(* (n = 1 or -1), which is what an empty min/max accumulator holds.        *)
(***************************************************************************)
EXTENDS Integers, Sequences, FiniteSets, TLC

\* ------------------------------------------------------------- bounds
\* The longest batch one push call is given.
MaxBatch == 2
\* The number of samples the push calls of one run are given.
MaxTotal == 2

\* ------------------------------------------------------------ numbers
Abs(i) == IF i < 0 THEN -i ELSE i

RECURSIVE GCD(_, _)
GCD(a, b) == IF b = 0 THEN a ELSE GCD(b, a % b)

NaN == [k |-> "nan", n |-> 0, d |-> 1]
Inf(s) == [k |-> "inf", n |-> s, d |-> 1]
Lim(s) == [k |-> "lim", n |-> s, d |-> 1]

\* The rational n/d, d # 0, reduced and with a positive denominator.
Rat(n, d) ==
    LET g == GCD(Abs(n), Abs(d))
        s == IF d < 0 THEN -1 ELSE 1
    IN  [k |-> "num", n |-> s * (n \div g), d |-> s * (d \div g)]

Num(i) == [k |-> "num", n |-> i, d |-> 1]
Zero == Num(0)

isnan(v) == v.k = "nan"
IsNum(v) == v.k = "num"

Sign(i) == IF i < 0 THEN -1 ELSE IF i > 0 THEN 1 ELSE 0

\* IEEE addition, with the finite values exact.
Add(a, b) ==
    IF isnan(a) \/ isnan(b) THEN NaN
    ELSE IF a.k = "inf" /\ b.k = "inf" THEN (IF a.n = b.n THEN a ELSE NaN)
    ELSE IF a.k = "inf" THEN a
    ELSE IF b.k = "inf" THEN b
    ELSE IF a.k = "lim" THEN a
    ELSE IF b.k = "lim" THEN b
    ELSE LET g == GCD(a.d, b.d)
             l == (a.d \div g) * b.d
         IN  Rat(a.n * (l \div a.d) + b.n * (l \div b.d), l)

Neg(a) == IF isnan(a) THEN NaN ELSE [a EXCEPT !.n = -a.n]

Sub(a, b) == Add(a, Neg(b))

\* IEEE multiplication, with the finite values exact.
Mul(a, b) ==
    IF isnan(a) \/ isnan(b) THEN NaN
    ELSE IF IsNum(a) /\ IsNum(b)
    THEN LET g1 == GCD(Abs(a.n), b.d)
             g2 == GCD(Abs(b.n), a.d)
         IN  IF a.n = 0 \/ b.n = 0 THEN Zero
             ELSE [k |-> "num", n |-> (a.n \div g1) * (b.n \div g2),
                   d |-> (a.d \div g2) * (b.d \div g1)]
    ELSE IF a.n = 0 \/ b.n = 0 THEN NaN
    ELSE Inf(Sign(a.n) * Sign(b.n))

\* IEEE division: 0/0 is NaN and x/0 an infinity, never an exception.
Div(a, b) ==
    IF isnan(a) \/ isnan(b) THEN NaN
    ELSE IF IsNum(a) /\ IsNum(b)
    THEN IF b.n = 0
         THEN (IF a.n = 0 THEN NaN ELSE Inf(Sign(a.n)))
         ELSE Mul(a, Rat(b.d, b.n))
    ELSE IF IsNum(b) THEN (IF b.n = 0 THEN a ELSE [a EXCEPT !.n = a.n * Sign(b.n)])
    ELSE IF IsNum(a) THEN Zero
    ELSE NaN

\* a < b; false as soon as one of them is NaN.
Less(a, b) ==
    IF isnan(a) \/ isnan(b) THEN FALSE
    ELSE IF IsNum(a) /\ IsNum(b) THEN a.n * b.d < b.n * a.d
    ELSE IF IsNum(a) THEN b.n > 0
    ELSE IF IsNum(b) THEN a.n < 0
    ELSE a.n < b.n \/ (a.n = b.n /\ a.k # b.k /\
                       ((a.n > 0 /\ a.k = "lim") \/ (a.n < 0 /\ a.k = "inf")))

Sqr(a) == Mul(a, a)

\* --------------------------------------------------------- accumulator
(* Accumulators: boost accumulator_set<T, stats<count, kurtosis, max, mean,  *)
(* median(with_p_square_quantile), min, skewness, sum, variance(lazy)>>.     *)
(* The moments are kept as the sums of the powers of the samples; heights    *)
(* are the five markers of the P-square estimator, filled by the first five  *)
(* samples.                                                                  *)
ZeroHeights == <<Zero, Zero, Zero, Zero, Zero>>

\* A default-constructed accumulator set.
EmptyAccumulator ==
    [count |-> 0, sum |-> Zero, min |-> Lim(1), max |-> Lim(-1),
     m2 |-> Zero, m3 |-> Zero, m4 |-> Zero, heights |-> ZeroHeights]

RECURSIVE Insert(_, _)
Insert(v, s) ==
    IF s = <<>> THEN <<v>>
    ELSE IF Less(v, Head(s)) THEN <<v>> \o s
    ELSE <<Head(s)>> \o Insert(v, Tail(s))

RECURSIVE SortHeights(_)
SortHeights(s) == IF s = <<>> THEN <<>> ELSE Insert(Head(s), SortHeights(Tail(s)))

\* The P-square markers: the first five samples are stored, and sorted when
\* the fifth arrives.
PSquare(h, cnt, v) ==
    IF cnt <= 5
    THEN LET h1 == [h EXCEPT ![cnt] = v]
         IN  IF cnt = 5 THEN SortHeights(h1) ELSE h1
    ELSE h

\* acc(value): one sample into every statistic of the set.
Accumulate(a, v) ==
    [count |-> a.count + 1,
     sum |-> Add(a.sum, v),
     min |-> IF Less(v, a.min) THEN v ELSE a.min,
     max |-> IF Less(a.max, v) THEN v ELSE a.max,
     m2 |-> Add(a.m2, Sqr(v)),
     m3 |-> Add(a.m3, Mul(v, Sqr(v))),
     m4 |-> Add(a.m4, Sqr(Sqr(v))),
     heights |-> PSquare(a.heights, a.count + 1, v)]

Moment(s, a) == Div(s, Num(a.count))
Mean(a) == Moment(a.sum, a)
Variance(a) == Sub(Moment(a.m2, a), Sqr(Mean(a)))

\* num / var^(3/2), kept exact as the signed root of num^2 / var^3.
Skewness(a) ==
    LET m == Mean(a)
        var == Variance(a)
        num == Add(Sub(Moment(a.m3, a), Mul(Num(3), Mul(Moment(a.m2, a), m))),
                   Mul(Num(2), Mul(m, Sqr(m))))
        q == Div(Sqr(num), Mul(var, Sqr(var)))
    IN  IF ~IsNum(var) \/ ~IsNum(num) \/ var.n = 0 \/ num.n = 0
        THEN Div(num, Mul(var, var))
        ELSE [k |-> "root", n |-> Sign(num.n) * q.n, d |-> q.d]

Kurtosis(a) ==
    LET m == Mean(a)
        var == Variance(a)
        num == Sub(Add(Sub(Moment(a.m4, a), Mul(Num(4), Mul(Moment(a.m3, a), m))),
                       Mul(Num(6), Mul(Moment(a.m2, a), Sqr(m)))),
                   Mul(Num(3), Sqr(Sqr(m))))
    IN  Sub(Div(num, Sqr(var)), Num(3))

Statistics ==
    {"count", "min", "max", "mean", "median", "variance", "kurtosis",
     "skewness", "sum"}

\* The extractor a query hands to calculate_statistics, applied to one cell.
Extract(func, a) ==
    CASE func = "count" -> Num(a.count)
      [] func = "min" -> a.min
      [] func = "max" -> a.max
      [] func = "mean" -> Mean(a)
      [] func = "median" -> a.heights[3]
      [] func = "variance" -> Variance(a)
      [] func = "kurtosis" -> Kurtosis(a)
      [] func = "skewness" -> Skewness(a)
      [] func = "sum" -> a.sum

\* ----------------------------------------------------------------- axis
(* pyinterp::Axis, as the engine uses it: regularly spaced points          *)
(* start + i * step, i in 0 .. size - 1; an angular axis covers the whole  *)
(* circle (size * step = Period).                                          *)

\* The period of an angular axis, in degrees.
Period == 360

Axis(start, step, size, angle) ==
    [start |-> start, step |-> step, size |-> size, angle |-> angle]

\* The axes the engines of this model are built on.
XAxis(angle) == Axis(0, 120, 3, angle)
YAxis == Axis(0, 2, 2, FALSE)

\* x_axis(i): the coordinate of point i.
AxisAt(ax, i) == ax.start + i * ax.step

is_angle(ax) == ax.angle

\* x rewrapped into [min, min + circle).
normalize_angle(x, min, circle) == ((x - min) % circle) + min

normalize_coordinate(ax, v) ==
    IF is_angle(ax) THEN normalize_angle(v, ax.start, Period) ELSE v

\* n / d (d > 0) rounded to the nearest integer, halves away from zero.
RoundDiv(n, d) ==
    IF n >= 0 THEN (2 * n + d) \div (2 * d) ELSE -((d - 2 * n) \div (2 * d))

\* The index of the point nearest to v, -1 for none; with bounded, a value
\* beyond an end of the axis resolves to that end.
find_index(ax, v, bounded) ==
    LET r == RoundDiv(normalize_coordinate(ax, v) - ax.start, ax.step)
        i == IF is_angle(ax) THEN r % ax.size ELSE r
    IN  IF i < 0 THEN (IF bounded THEN 0 ELSE -1)
        ELSE IF i >= ax.size THEN (IF bounded THEN ax.size - 1 ELSE -1)
        ELSE i

NoIndexes == [has_value |-> FALSE, i0 |-> -1, i1 |-> -1]
Indexes(i0, i1) == [has_value |-> TRUE, i0 |-> i0, i1 |-> i1]

\* The two indexes whose points frame v, none when v is outside the axis;
\* on an angular axis the last point and the first frame the values between
\* them.
find_indexes(ax, v) ==
    LET c == normalize_coordinate(ax, v)
        last == AxisAt(ax, ax.size - 1)
        i == (c - ax.start) \div ax.step
    IN  IF is_angle(ax) THEN Indexes(i, (i + 1) % ax.size)
        ELSE IF c < ax.start \/ c > last \/ ax.size < 2 THEN NoIndexes
        ELSE IF i = ax.size - 1 THEN Indexes(i - 1, i)
        ELSE Indexes(i, i + 1)

\* Whether v lies within the axis's domain.
InDomain(ax, v) ==
    is_angle(ax) \/ (ax.start <= v /\ v <= AxisAt(ax, ax.size - 1))

\* -------------------------------------------------------------- weights
\* strategy::area::cartesian on the box (ax, ay) - (bx, by).
CartesianArea(ax, ay, bx, by) == (bx - ax) * (by - ay)

\* The area of the ellipsoid between latitude 0 and latitude y, 0 <= y <= 2,
\* per degree of longitude (in the model's units): it grows ever slower
\* towards the pole.
Authalic(y) == y * (4 - y)

\* strategy::area::geographic on the box (ax, ay) - (bx, by): longitudes
\* count along the shorter way round.
GeographicArea(ax, ay, bx, by) ==
    normalize_angle(bx - ax, -180, Period) * (Authalic(by) - Authalic(ay))

Area(geographic, ax, ay, bx, by) ==
    IF geographic THEN GeographicArea(ax, ay, bx, by)
    ELSE CartesianArea(ax, ay, bx, by)

\* detail::math::binning: the weights of the corners (x0, y0), (x0, y1),
\* (x1, y0), (x1, y1) of the cell p0 - p1 for the point p: each corner gets
\* the share of the cell's area that lies opposite to it.
binning(geographic, px, py, x0, y0, x1, y1) ==
    LET total == Area(geographic, x0, y0, x1, y1)
    IN  <<Rat(Area(geographic, px, py, x1, y1), total),
          Rat(Area(geographic, px, y0, x1, py), total),
          Rat(Area(geographic, x0, py, px, y1), total),
          Rat(Area(geographic, x0, y0, px, py), total)>>

\* --------------------------------------------------------------- engine
VARIABLES
    x_,       \* the X axis
    y_,       \* the Y axis
    wgs_,     \* whether a geodetic system was given (geographic coordinates)
    acc_,     \* the matrix of accumulators
    pc,       \* "idle", or the loop a push call is in
    args,     \* the arrays and the mode of the push call in progress
    idx,      \* the push loop's index
    thrown,   \* what the last call threw: "none" or "invalid_argument"
    hist,     \* the samples given to the push calls since the last reset
    nclear,   \* the clear() calls since the last push call (2: two or more)
    nproc,    \* the number of samples given to the push calls so far
    malformed, \* whether the arrays of the last push call were malformed
    peer,     \* a second Binning2D instance, or NoPeer
    stage,    \* the accumulations push_linear has made for the sample at idx
    seen      \* the array a statistic query has just returned, or NoView

vars == <<x_, y_, wgs_, acc_, pc, args, idx, thrown, hist, nclear, nproc,
          malformed, peer, stage, seen>>

\* Eigen::Matrix<Accumulators, Dynamic, Dynamic>(rows, cols).
Matrix(rows, cols) ==
    [rows |-> rows, cols |-> cols,
     data |-> [c \in (0 .. rows - 1) \X (0 .. cols - 1) |-> EmptyAccumulator]]

Cells(m) == (0 .. m.rows - 1) \X (0 .. m.cols - 1)

\* acc(ix, iy)(value) on the matrix m.
Feed(m, ix, iy, v) ==
    [m EXCEPT !.data[<<ix, iy>>] = Accumulate(m.data[<<ix, iy>>], v)]

\* A 1-D or 2-D array of the caller.
Array(ndim, data) == [ndim |-> ndim, data |-> data]
Size(a) == Len(a.data)
NoArgs == [x |-> <<>>, y |-> <<>>, z |-> <<>>, simple |-> TRUE]

\* skipped, were the loops to test nothing.
never_skipped(value) == FALSE

\* The test that makes both loops pass over a sample: std::isnan(value).
skipped(value) == isnan(value)

\* One iteration of push_nearest's loop, for the sample (x, y, z).
push_nearest_sample(m, xa, ya, x, y, z) ==
    IF ~skipped(z)
    THEN LET ix == find_index(xa, x, TRUE)
             iy == find_index(ya, y, TRUE)
         IN  IF ix # -1 /\ iy # -1 THEN Feed(m, ix, iy, z) ELSE m
    ELSE m

\* linear_indexes, were a value outside the axis resolved to the cell at the
\* nearer end, as push_nearest resolves it to the bin at the nearer end.
linear_indexes_clamped(ax, v) ==
    IF find_indexes(ax, v).has_value THEN find_indexes(ax, v)
    ELSE IF v < ax.start THEN Indexes(0, 1)
    ELSE Indexes(ax.size - 2, ax.size - 1)

\* The indexes push_linear resolves a coordinate to.
linear_indexes(ax, v) == find_indexes(ax, v)

\* linear_point_x, were x weighed as the caller gave it.
linear_point_x_raw(xa, x, x0) == x

\* The abscissa push_linear weighs: on an angular axis, x in the period that
\* starts at x0.
linear_point_x(xa, x, x0) ==
    IF is_angle(xa) THEN normalize_angle(x, x0, Period) ELSE x

\* linear_feed, were the third accumulation to go to the cell of the fourth.
linear_feed_slip(m, ix0, ix1, iy0, iy1, value, weights) ==
    LET m1 == Feed(m, ix0, iy0, Mul(value, weights[1]))
        m2 == Feed(m1, ix0, iy1, Mul(value, weights[2]))
        m3 == Feed(m2, ix1, iy1, Mul(value, weights[3]))
    IN  Feed(m3, ix1, iy1, Mul(value, weights[4]))

\* The four accumulations of push_linear.
linear_feed(m, ix0, ix1, iy0, iy1, value, weights) ==
    LET m1 == Feed(m, ix0, iy0, Mul(value, weights[1]))
        m2 == Feed(m1, ix0, iy1, Mul(value, weights[2]))
        m3 == Feed(m2, ix1, iy0, Mul(value, weights[3]))
    IN  Feed(m3, ix1, iy1, Mul(value, weights[4]))

\* The weights push_linear computes for the point (x, y) in the cell
\* (ix0, iy0) - (ix1, iy1).
linear_weights(xa, ya, geographic, x, y, ix0, ix1, iy0, iy1) ==
    LET x0 == AxisAt(xa, ix0)
    IN  binning(geographic, linear_point_x(xa, x, x0), y,
                x0, AxisAt(ya, iy0), AxisAt(xa, ix1), AxisAt(ya, iy1))

\* One iteration of push_linear's loop, for the sample (x, y, z).
push_linear_sample(m, xa, ya, geographic, x, y, z) ==
    IF skipped(z) THEN m
    ELSE LET x_indexes == linear_indexes(xa, x)
             y_indexes == linear_indexes(ya, y)
         IN  IF x_indexes.has_value /\ y_indexes.has_value
             THEN linear_feed(m, x_indexes.i0, x_indexes.i1,
                              y_indexes.i0, y_indexes.i1, z,
                              linear_weights(xa, ya, geographic, x, y,
                                             x_indexes.i0, x_indexes.i1,
                                             y_indexes.i0, y_indexes.i1))
             ELSE m

\* One iteration of the loop push dispatched to.
push_sample(m, xa, ya, geographic, simple, x, y, z) ==
    IF simple THEN push_nearest_sample(m, xa, ya, x, y, z)
    ELSE push_linear_sample(m, xa, ya, geographic, x, y, z)

\* The loop of push_nearest or push_linear from index i to the end of the
\* arrays a.
RECURSIVE push_loop(_, _, _, _, _, _)
push_loop(m, xa, ya, geographic, a, i) ==
    IF i < Len(a.x)
    THEN push_loop(push_sample(m, xa, ya, geographic, a.simple, a.x[i + 1],
                               a.y[i + 1], a.z[i + 1]),
                   xa, ya, geographic, a, i + 1)
    ELSE m

\* detail::check_array_ndim("x", 1, x, "y", 1, y, "z", 1, z): whether it
\* returns rather than throws std::invalid_argument.
check_array_ndim(x, y, z) == x.ndim = 1 /\ y.ndim = 1 /\ z.ndim = 1

\* detail::check_ndarray_shape("x", x, "y", y, "z", z): whether it returns
\* rather than throws std::invalid_argument.
check_ndarray_shape(x, y, z) == Size(x) = Size(y) /\ Size(x) = Size(z)

\* Binning2D(x, y, wgs): the state after construction.
Binning2D(x, y, wgs) ==
    /\ x_ = x
    /\ y_ = y
    /\ wgs_ = wgs
    /\ acc_ = Matrix(x.size, y.size)
    /\ pc = "idle"
    /\ args = NoArgs
    /\ idx = 0
    /\ thrown = "none"
    /\ hist = <<>>
    /\ nclear = 0
    /\ nproc = 0
    /\ malformed = FALSE

\* The samples of the arrays x, y, z, as hist keeps them.
Given(x, y, z, simple) ==
    [i \in 1 .. Size(x) |->
        [x |-> x.data[i], y |-> y.data[i], z |-> z.data[i], simple |-> simple]]

\* The loop push enters.
Dispatch(x, y, z, simple) ==
    /\ pc' = IF simple THEN "push_nearest" ELSE "push_linear"
    /\ args' = [x |-> x.data, y |-> y.data, z |-> z.data, simple |-> simple]
    /\ idx' = 0
    /\ thrown' = "none"
    /\ nclear' = 0

\* push, were it to enter the loop without checking the arrays.
push_unchecked(x, y, z, simple) ==
    /\ pc = "idle"
    /\ Dispatch(x, y, z, simple)
    /\ hist' = hist
    /\ nproc' = nproc + Size(x)
    /\ UNCHANGED <<x_, y_, wgs_, acc_>>

\* push, were it to begin with new accumulators.
push_resetting(x, y, z, simple) ==
    /\ pc = "idle"
    /\ IF check_array_ndim(x, y, z) /\ check_ndarray_shape(x, y, z)
       THEN /\ Dispatch(x, y, z, simple)
            /\ hist' = hist \o Given(x, y, z, simple)
            /\ nproc' = nproc + Size(x)
            /\ acc_' = Matrix(x_.size, y_.size)
       ELSE /\ thrown' = "invalid_argument"
            /\ UNCHANGED <<pc, args, idx, nclear, hist, nproc, acc_>>
    /\ UNCHANGED <<x_, y_, wgs_>>

\* push(x, y, z, simple), up to the loop it dispatches to.
push(x, y, z, simple) ==
    /\ pc = "idle"
    /\ IF check_array_ndim(x, y, z) /\ check_ndarray_shape(x, y, z)
       THEN /\ Dispatch(x, y, z, simple)
            /\ hist' = hist \o Given(x, y, z, simple)
            /\ nproc' = nproc + Size(x)
       ELSE /\ thrown' = "invalid_argument"
            /\ UNCHANGED <<pc, args, idx, nclear, hist, nproc>>
    /\ UNCHANGED <<x_, y_, wgs_, acc_>>

\* One iteration of the loop of the push call in progress.
LoopBody ==
    /\ idx < Len(args.x)
    /\ acc_' = push_sample(acc_, x_, y_, wgs_, args.simple, args.x[idx + 1],
                           args.y[idx + 1], args.z[idx + 1])
    /\ idx' = idx + 1
    /\ UNCHANGED <<x_, y_, wgs_, pc, args, thrown, hist, nclear, nproc,
                   malformed>>

push_nearest ==
    /\ pc = "push_nearest"
    /\ LoopBody

push_linear ==
    /\ pc = "push_linear"
    /\ LoopBody

\* The loop is over: the push call returns.
push_return ==
    /\ pc \in {"push_nearest", "push_linear"}
    /\ idx = Len(args.x)
    /\ pc' = "idle"
    /\ args' = NoArgs
    /\ idx' = 0
    /\ UNCHANGED <<x_, y_, wgs_, acc_, thrown, hist, nclear, nproc, malformed>>

\* clear, were it to resize the matrix, which keeps a matrix that has the
\* sizes asked for.
clear_resize ==
    /\ pc = "idle"
    /\ acc_' = IF acc_.rows = x_.size /\ acc_.cols = y_.size THEN acc_
               ELSE Matrix(x_.size, y_.size)
    /\ hist' = <<>>
    /\ nclear' = IF nclear = 0 THEN 1 ELSE 2
    /\ thrown' = "none"
    /\ malformed' = FALSE
    /\ UNCHANGED <<x_, y_, wgs_, pc, args, idx, nproc>>

\* clear(): a new matrix of the axes' sizes.
clear ==
    /\ pc = "idle"
    /\ acc_' = Matrix(x_.size, y_.size)
    /\ hist' = <<>>
    /\ nclear' = IF nclear = 0 THEN 1 ELSE 2
    /\ thrown' = "none"
    /\ malformed' = FALSE
    /\ UNCHANGED <<x_, y_, wgs_, pc, args, idx, nproc>>

\* calculate_statistics(func): the array a statistic query returns.
calculate_statistics(func) ==
    [shape |-> <<x_.size, y_.size>>,
     data |-> [c \in Cells(acc_) |-> Extract(func, acc_.data[c])]]

\* --------------------------------------------------------------- inputs
\* x: 60 lies between the first two points; 300 lies past the last point,
\* which an angular axis wraps to the cell between the last point and the
\* first; -60 is 300 one period down. y: 1 lies between the two points, 5
\* lies past the last one.
XS == {-60, 60, 300}
YS == {1, 5}
Samples ==
    [x : XS, y : YS, z : {Num(2)}] \cup [x : {60, 300}, y : YS, z : {NaN}]

\* What is wrong with the arrays of a call: nothing, one of them is 2-D, or
\* one of them is one element short.
Defects == {"none", "z_2d", "x_short", "y_short", "z_short"}

Column(b, f, short) ==
    [i \in 1 .. (IF short THEN Len(b) - 1 ELSE Len(b)) |-> b[i][f]]

ArrayOf(b, f, defect) ==
    Array(IF defect = f \o "_2d" THEN 2 ELSE 1,
          Column(b, f, defect = f \o "_short"))

\* Arrays that are all 1-D and of one length.
WellFormed(x, y, z) ==
    /\ {x.ndim, y.ndim, z.ndim} = {1}
    /\ Cardinality({Size(x), Size(y), Size(z)}) = 1

\* A push call of the caller, on arrays cut from at most MaxBatch samples.
Call ==
    \E n \in 0 .. MaxBatch :
        /\ nproc + n <= MaxTotal
        /\ \E b \in [1 .. n -> Samples], defect \in Defects, simple \in BOOLEAN :
               LET x == ArrayOf(b, "x", defect)
                   y == ArrayOf(b, "y", defect)
                   z == ArrayOf(b, "z", defect)
               IN  /\ defect \in {"x_short", "y_short", "z_short"} => n > 0
                   /\ malformed' = ~WellFormed(x, y, z)
                   /\ push(x, y, z, simple)

\* No second instance, and no query in flight.
NoPeer == [pc |-> "absent"]
NoView == [func |-> "none"]

\* One engine, operated by one thread: each call runs to its end before the
\* next, and each sample is accumulated in one step.
Alone ==
    /\ peer = NoPeer
    /\ stage = 0
    /\ seen = NoView

Init ==
    /\ \E angle \in BOOLEAN, wgs \in BOOLEAN :
           Binning2D(XAxis(angle), YAxis, wgs)
    /\ Alone

\* A step that involves neither a second instance nor a query.
Single == UNCHANGED <<peer, stage, seen>>

Next ==
    \/ Call /\ Single
    \/ push_nearest /\ Single
    \/ push_linear /\ Single
    \/ push_return /\ Single
    \/ clear /\ Single

Spec == Init /\ [][Next]_vars

\* -------------------------------------------------------- two instances
\* A second Binning2D(x, y, wgs): its members, the position of its push call
\* and the samples its push calls were given since its last reset.
Instance(x, y, wgs) ==
    [x_ |-> x, y_ |-> y, wgs_ |-> wgs, acc_ |-> Matrix(x.size, y.size),
     pc |-> "idle", args |-> NoArgs, idx |-> 0, hist |-> <<>>]

\* What no step of the second instance touches: the first instance.
OtherInstance ==
    UNCHANGED <<x_, y_, wgs_, acc_, pc, args, idx, thrown, hist, nclear,
                malformed>>

\* push(x, y, z, simple) on the second instance, up to the loop.
peer_push(x, y, z, simple) ==
    /\ peer.pc = "idle"
    /\ IF check_array_ndim(x, y, z) /\ check_ndarray_shape(x, y, z)
       THEN /\ peer' = [peer EXCEPT
                           !.pc = IF simple THEN "push_nearest"
                                  ELSE "push_linear",
                           !.args = [x |-> x.data, y |-> y.data,
                                     z |-> z.data, simple |-> simple],
                           !.idx = 0,
                           !.hist = @ \o Given(x, y, z, simple)]
            /\ nproc' = nproc + Size(x)
       ELSE UNCHANGED <<peer, nproc>>
    /\ OtherInstance

\* The loop of the second instance, were acc_ one matrix of the class
\* rather than a member of each instance.
peer_loop_static ==
    /\ peer.pc \in {"push_nearest", "push_linear"}
    /\ peer.idx < Len(peer.args.x)
    /\ acc_' = push_sample(acc_, peer.x_, peer.y_, peer.wgs_,
                           peer.args.simple, peer.args.x[peer.idx + 1],
                           peer.args.y[peer.idx + 1],
                           peer.args.z[peer.idx + 1])
    /\ peer' = [peer EXCEPT !.idx = @ + 1]
    /\ UNCHANGED <<x_, y_, wgs_, pc, args, idx, thrown, hist, nclear,
                   malformed, nproc>>

\* One iteration of the loop of the second instance's push call: it reads
\* the axes, which it may share, and writes its own acc_.
peer_loop ==
    /\ peer.pc \in {"push_nearest", "push_linear"}
    /\ peer.idx < Len(peer.args.x)
    /\ peer' = [peer EXCEPT
                   !.acc_ = push_sample(@, peer.x_, peer.y_, peer.wgs_,
                                        peer.args.simple,
                                        peer.args.x[peer.idx + 1],
                                        peer.args.y[peer.idx + 1],
                                        peer.args.z[peer.idx + 1]),
                   !.idx = @ + 1]
    /\ OtherInstance
    /\ UNCHANGED nproc

\* The second instance's push call returns.
peer_return ==
    /\ peer.pc \in {"push_nearest", "push_linear"}
    /\ peer.idx = Len(peer.args.x)
    /\ peer' = [peer EXCEPT !.pc = "idle", !.args = NoArgs, !.idx = 0]
    /\ OtherInstance
    /\ UNCHANGED nproc

\* clear() on the second instance.
peer_clear ==
    /\ peer.pc = "idle"
    /\ peer' = [peer EXCEPT !.acc_ = Matrix(peer.x_.size, peer.y_.size),
                            !.hist = <<>>]
    /\ OtherInstance
    /\ UNCHANGED nproc

\* A statistic query on the first instance: it changes no member.
query(func) ==
    /\ seen' = [func |-> func, of |-> "first",
                view |-> calculate_statistics(func)]
    /\ UNCHANGED <<x_, y_, wgs_, acc_, pc, args, idx, thrown, hist, nclear,
                   nproc, malformed, peer, stage>>

\* A statistic query on the second instance.
peer_query(func) ==
    /\ peer # NoPeer
    /\ seen' = [func |-> func, of |-> "second",
                view |-> [shape |-> <<peer.x_.size, peer.y_.size>>,
                          data |-> [c \in Cells(peer.acc_) |->
                                       Extract(func, peer.acc_.data[c])]]]
    /\ OtherInstance
    /\ UNCHANGED <<nproc, peer, stage>>

\* The statistics the queries of the concurrent runs ask for.
Queried == {"count", "sum"}

\* The samples of the concurrent runs: one between the first two points of
\* the x axis, one past its last point.
Few == [x : {60, 300}, y : {1}, z : {Num(2)}]

\* The arrays of a well-formed push call on the samples b.
ArraysOf(b) ==
    [x |-> ArrayOf(b, "x", "none"), y |-> ArrayOf(b, "y", "none"),
     z |-> ArrayOf(b, "z", "none")]

\* A push call on the first instance, on arrays cut from at most MaxBatch
\* samples.
FirstCall ==
    \E n \in 0 .. MaxBatch :
        /\ nproc + n <= MaxTotal
        /\ \E b \in [1 .. n -> Few], simple \in BOOLEAN :
               /\ malformed' = FALSE
               /\ push(ArraysOf(b).x, ArraysOf(b).y, ArraysOf(b).z, simple)

\* A push call on the second instance.
PeerCall ==
    \E n \in 0 .. MaxBatch :
        /\ nproc + n <= MaxTotal
        /\ \E b \in [1 .. n -> Few], simple \in BOOLEAN :
               peer_push(ArraysOf(b).x, ArraysOf(b).y, ArraysOf(b).z, simple)

\* A step of the first instance while there is a second one: the array the
\* last query returned is gone.
First ==
    /\ seen' = NoView
    /\ UNCHANGED <<peer, stage>>

\* A step of the second instance.
Second ==
    /\ seen' = NoView
    /\ UNCHANGED stage

\* Two instances, made from the same axis objects or from different x axes:
\* the first on an angular x axis, one with a geodetic system and one
\* without.
PeersInit ==
    /\ \E wgs \in BOOLEAN, shared \in BOOLEAN :
           /\ Binning2D(XAxis(TRUE), YAxis, wgs)
           /\ peer = Instance(IF shared THEN XAxis(TRUE) ELSE XAxis(FALSE),
                              YAxis, ~wgs)
    /\ stage = 0
    /\ seen = NoView

PeersNext ==
    \/ FirstCall /\ First
    \/ push_nearest /\ First
    \/ push_linear /\ First
    \/ push_return /\ First
    \/ clear /\ First
    \/ \E func \in Queried : query(func)
    \/ PeerCall /\ Second
    \/ peer_loop /\ Second
    \/ peer_return /\ Second
    \/ peer_clear /\ Second
    \/ \E func \in Queried : peer_query(func)

PeersSpec == PeersInit /\ [][PeersNext]_vars

\* ---------------------------------------------------------- two threads
\* pybind11::gil_scoped_release: between the release at the head of a loop
\* and the end of it, the interpreter lock is free and another thread can
\* call a statistic query on the engine; between calls any thread can.
released == pc \in {"push_nearest", "push_linear"}

\* The cell of the k-th accumulation of push_linear.
linear_corner(k, ix0, ix1, iy0, iy1) ==
    <<IF k <= 2 THEN ix0 ELSE ix1, IF k \in {1, 3} THEN iy0 ELSE iy1>>

\* The next statement of push_linear's loop body: the tests of the sample
\* at idx, and then its four accumulations one at a time.
push_linear_stage ==
    /\ pc = "push_linear"
    /\ idx < Len(args.x)
    /\ LET x == args.x[idx + 1]
           y == args.y[idx + 1]
           value == args.z[idx + 1]
           x_indexes == linear_indexes(x_, x)
           y_indexes == linear_indexes(y_, y)
       IN  IF skipped(value)
              \/ ~(x_indexes.has_value /\ y_indexes.has_value)
           THEN /\ acc_' = acc_
                /\ idx' = idx + 1
                /\ stage' = 0
           ELSE LET weights == linear_weights(x_, y_, wgs_, x, y,
                                              x_indexes.i0, x_indexes.i1,
                                              y_indexes.i0, y_indexes.i1)
                    cell == linear_corner(stage + 1,
                                          x_indexes.i0, x_indexes.i1,
                                          y_indexes.i0, y_indexes.i1)
                IN  /\ acc_' = Feed(acc_, cell[1], cell[2],
                                    Mul(value, weights[stage + 1]))
                    /\ idx' = IF stage = 3 THEN idx + 1 ELSE idx
                    /\ stage' = IF stage = 3 THEN 0 ELSE stage + 1
    /\ seen' = NoView
    /\ UNCHANGED <<x_, y_, wgs_, pc, args, thrown, hist, nclear, nproc,
                   malformed, peer>>

\* A statistic query from another thread, or from the caller's between two
\* calls: calculate_statistics takes no lock of the engine's.
thread_query(func) ==
    /\ released \/ pc = "idle"
    /\ query(func)

\* A push call returns once the loop is over, which is after the last
\* accumulation of the last sample.
ThreadsNext ==
    \/ Call /\ First
    \/ push_nearest /\ First
    \/ push_linear_stage
    \/ push_return /\ stage = 0 /\ First
    \/ clear /\ First
    \/ \E func \in Queried : thread_query(func)

ThreadsSpec == Init /\ [][ThreadsNext]_vars

\* ----------------------------------------------------------- properties
RECURSIVE CountOver(_, _)
CountOver(m, S) ==
    IF S = {} THEN 0
    ELSE LET c == CHOOSE c \in S : TRUE
         IN  m.data[c].count + CountOver(m, S \ {c})

\* The sum of count() over all cells.
TotalCount(m) == CountOver(m, Cells(m))

RECURSIVE SumOver(_, _)
SumOver(m, S) ==
    IF S = {} THEN Zero
    ELSE LET c == CHOOSE c \in S : TRUE
         IN  Add(m.data[c].sum, SumOver(m, S \ {c}))

\* The sum of sum() over all cells.
TotalSum(m) == SumOver(m, Cells(m))

Looping == pc \in {"push_nearest", "push_linear"}

\* A step that is one iteration of a push loop.
LoopStep == Looping /\ idx < Len(args.x) /\ idx' = idx + 1

\* The sample a loop step processes, and the last sample processed by the
\* call in progress.
Cur == [x |-> args.x[idx + 1], y |-> args.y[idx + 1], z |-> args.z[idx + 1]]
Done(i) == [x |-> args.x[i], y |-> args.y[i], z |-> args.z[i]]

Inside(s) == InDomain(x_, s.x) /\ InDomain(y_, s.y)
Resolved(s) ==
    find_indexes(x_, s.x).has_value /\ find_indexes(y_, s.y).has_value

\* C1: in nearest mode, once the push calls have returned, the sum of
\* count() over all cells is the number of samples given whose z is not NaN
\* and whose x and y both lie within their axis's domain.
C1_CountConservation ==
    (pc = "idle" /\ \A i \in DOMAIN hist : hist[i].simple) =>
        TotalCount(acc_) =
            Cardinality({i \in DOMAIN hist :
                            ~isnan(hist[i].z) /\ Inside(hist[i])})

\* C2: a loop step on a sample whose z is NaN leaves every accumulator as it
\* was, in either mode and whatever x and y are.
C2_NaNSkipped ==
    [][(LoopStep /\ isnan(Cur.z)) => acc_' = acc_]_vars

\* A NaN sample at a place of the grid was passed over by the linear loop
\* after a sample had been accumulated.
C2_Witness ==
    /\ pc = "push_linear"
    /\ idx = 2
    /\ isnan(Done(2).z)
    /\ Resolved(Done(2))
    /\ TotalCount(acc_) = 4

\* C3: a push call whose arrays are not all 1-D or not of one length throws
\* and returns at once: no loop is entered and no accumulator changes.
C3_MalformedRejected ==
    [][(pc = "idle" /\ malformed') =>
          (thrown' = "invalid_argument" /\ pc' = "idle" /\ acc_' = acc_)]_vars

\* A malformed call was rejected by an engine that holds data.
C3_Witness ==
    /\ malformed
    /\ thrown = "invalid_argument"
    /\ TotalCount(acc_) > 0

\* C4: a linear loop step on a sample that find_indexes does not resolve on
\* the x axis or on the y axis changes no accumulator and throws nothing,
\* and the loop goes on: it is left only at the end of the arrays.
C4_UnresolvedSkipped ==
    [][/\ (pc = "push_linear" /\ LoopStep /\ ~Resolved(Cur)) =>
             (acc_' = acc_ /\ thrown' = "none" /\ pc' = "push_linear"
              /\ args' = args)
       /\ (Looping /\ pc' = "idle") => idx = Len(args.x)]_vars

\* The linear loop passed over a sample with a value outside the y axis,
\* then accumulated the next one.
C4_Witness ==
    /\ pc = "push_linear"
    /\ idx = 2
    /\ ~isnan(Done(1).z)
    /\ ~Resolved(Done(1))
    /\ ~isnan(Done(2).z)
    /\ Resolved(Done(2))
    /\ TotalCount(acc_) = 4

\* The accumulator of the cell c of m after one accumulation of v.
One(m, c, v) == Accumulate(m.data[c], v)

\* m2 is m with value accumulated into exactly one cell.
NearestOne(m, m2, value) ==
    \E c \in Cells(m) :
        m2 = [m EXCEPT !.data = [d \in Cells(m) |->
                  IF d = c THEN One(m, d, value) ELSE m.data[d]]]

\* m2 is m with value * w00, w01, w10, w11 accumulated once each into the
\* four distinct corners of one cell, and nothing else changed.
LinearFour(m, m2, s) ==
    \E ix0, ix1 \in 0 .. m.rows - 1, iy0, iy1 \in 0 .. m.cols - 1 :
        /\ ix0 # ix1
        /\ iy0 # iy1
        /\ LET w == linear_weights(x_, y_, wgs_, s.x, s.y, ix0, ix1, iy0, iy1)
           IN  m2 = [m EXCEPT !.data = [d \in Cells(m) |->
                   CASE d = <<ix0, iy0>> -> One(m, d, Mul(s.z, w[1]))
                     [] d = <<ix0, iy1>> -> One(m, d, Mul(s.z, w[2]))
                     [] d = <<ix1, iy0>> -> One(m, d, Mul(s.z, w[3]))
                     [] d = <<ix1, iy1>> -> One(m, d, Mul(s.z, w[4]))
                     [] OTHER -> m.data[d]]]

\* C5: a loop step changes no cell, or (nearest) accumulates the raw value
\* once into exactly one cell, or (linear) accumulates value * w00, w01, w10,
\* w11 once each into the four distinct corners (ix0, iy0), (ix0, iy1),
\* (ix1, iy0), (ix1, iy1); every other cell is as it was.
C5_AllOrNothing ==
    [][LoopStep =>
          \/ acc_' = acc_
          \/ pc = "push_nearest" /\ NearestOne(acc_, acc_', Cur.z)
          \/ pc = "push_linear" /\ LinearFour(acc_, acc_', Cur)]_vars

\* The linear loop split a sample over four cells of a filled grid: after two
\* samples in different cells, two cells hold two contributions and four hold
\* one.
C5_Witness ==
    /\ pc = "push_linear"
    /\ idx = 2
    /\ Cardinality({c \in Cells(acc_) : acc_.data[c].count = 2}) = 2
    /\ Cardinality({c \in Cells(acc_) : acc_.data[c].count = 1}) = 4
    /\ TotalCount(acc_) = 8

\* The weights of the sample s, as push_linear computes them.
WeightsOf(s) ==
    linear_weights(x_, y_, wgs_, s.x, s.y,
                   find_indexes(x_, s.x).i0, find_indexes(x_, s.x).i1,
                   find_indexes(y_, s.y).i0, find_indexes(y_, s.y).i1)

\* C6: for every sample the linear loop accepts, the four weights are each
\* >= 0 and sum to 1, and the total of sum() over all cells grows by the
\* sample's value.
C6_WeightConservation ==
    [][(pc = "push_linear" /\ LoopStep /\ ~isnan(Cur.z) /\ Resolved(Cur)) =>
          LET w == WeightsOf(Cur)
          IN  /\ \A i \in 1 .. 4 : ~Less(w[i], Zero)
              /\ Add(Add(w[1], w[2]), Add(w[3], w[4])) = Num(1)
              /\ TotalSum(acc_') = Add(TotalSum(acc_), Cur.z)]_vars

\* What a statistic query returns on a newly constructed engine.
FreshStatistics(func) ==
    [shape |-> <<x_.size, y_.size>>,
     data |-> [c \in (0 .. x_.size - 1) \X (0 .. y_.size - 1) |->
                  Extract(func, EmptyAccumulator)]]

\* C7: after clear(), and after a second clear(), every cell is empty: the
\* matrix has the axes' sizes, count() is zero everywhere and every statistic
\* reads as on a newly constructed engine.
C7_ClearResets ==
    nclear >= 1 =>
        /\ acc_.rows = x_.size
        /\ acc_.cols = y_.size
        /\ \A c \in Cells(acc_) : acc_.data[c] = EmptyAccumulator
        /\ \A func \in Statistics :
               calculate_statistics(func) = FreshStatistics(func)

\* clear() was called twice in a row, after push calls that were given
\* samples.
C7_Witness ==
    /\ nclear = 2
    /\ nproc = MaxTotal

\* The samples of hist the loops have processed.
Processed == SubSeq(hist, 1, Len(hist) - (Len(args.x) - idx))

\* The arrays of one push call that is given the samples h.
OneCall(h) ==
    [x |-> [i \in DOMAIN h |-> h[i].x], y |-> [i \in DOMAIN h |-> h[i].y],
     z |-> [i \in DOMAIN h |-> h[i].z], simple |-> h[1].simple]

\* C8: however the samples were cut into push calls of one mode, the
\* accumulators are those one push call on all of them leaves in a new
\* engine.
C8_BatchSplit ==
    (Processed # <<>> /\ \A i \in DOMAIN Processed :
                             Processed[i].simple = Processed[1].simple) =>
        acc_ = push_loop(Matrix(x_.size, y_.size), x_, y_, wgs_,
                         OneCall(Processed), 0)

\* The second of two push calls of one sample each has accumulated its
\* sample into the cells that hold the first call's.
C8_Witness ==
    /\ pc = "push_linear"
    /\ Len(args.x) = 1
    /\ idx = 1
    /\ Len(hist) = 2
    /\ ~hist[1].simple
    /\ TotalCount(acc_) = 8

\* A value no sample can have: NaN, or a limit of the type.
NoData(v) == v.k # "num"

\* C9: for a cell that has absorbed no sample, count() and sum() return 0,
\* min, max, mean, median, variance, skewness and kurtosis return a no-data
\* sentinel, and each query returns an array of shape [Nx, Ny].
C9_EmptySentinel ==
    \A c \in Cells(acc_) :
        acc_.data[c].count = 0 =>
            /\ calculate_statistics("count").data[c] = Zero
            /\ calculate_statistics("sum").data[c] = Zero
            /\ \A func \in Statistics \ {"count", "sum"} :
                   /\ calculate_statistics(func).shape = <<x_.size, y_.size>>
                   /\ NoData(calculate_statistics(func).data[c])

\* C10: on an angular x axis, a linear loop step has the effect it would have
\* on the sample whose x is one period up or one period down: the same four
\* cells receive the same contributions.
C10_AngularWrap ==
    [][(pc = "push_linear" /\ LoopStep /\ is_angle(x_)) =>
          \A k \in {-1, 1} :
              acc_' = push_linear_sample(acc_, x_, y_, wgs_,
                                         Cur.x + k * Period, Cur.y, Cur.z)]_vars

\* The linear loop accumulated the samples at x = 300 and x = -60 (same y and
\* z) on an angular axis: four cells hold the same contribution twice.
C10_Witness ==
    /\ pc = "push_linear"
    /\ is_angle(x_)
    /\ idx = 2
    /\ Done(1).x = 300
    /\ Done(2).x = -60
    /\ Done(1).y = Done(2).y
    /\ Done(1).z = Done(2).z
    /\ Cardinality({c \in Cells(acc_) :
           /\ acc_.data[c].count = 2
           /\ acc_.data[c].heights[1] = acc_.data[c].heights[2]}) = 4

\* The accumulators an instance with the axes xa, ya and the setting
\* geographic holds after its loops have processed the samples h from the
\* i-th on, beginning with the matrix m and with no other instance about.
RECURSIVE RunAlone(_, _, _, _, _, _)
RunAlone(m, xa, ya, geographic, h, i) ==
    IF i < Len(h)
    THEN RunAlone(push_sample(m, xa, ya, geographic, h[i + 1].simple,
                              h[i + 1].x, h[i + 1].y, h[i + 1].z),
                  xa, ya, geographic, h, i + 1)
    ELSE m

\* The samples of its hist the second instance's loops have processed.
PeerProcessed ==
    SubSeq(peer.hist, 1, Len(peer.hist) - (Len(peer.args.x) - peer.idx))

\* C11: however the push, clear and query operations of two instances
\* interleave, whether or not the instances share their axis objects, each
\* instance's accumulators are those its own operations, run alone in their
\* own order, leave.
C11_InstancesIndependent ==
    /\ acc_ = RunAlone(Matrix(x_.size, y_.size), x_, y_, wgs_, Processed, 0)
    /\ peer.acc_ = RunAlone(Matrix(peer.x_.size, peer.y_.size), peer.x_,
                            peer.y_, peer.wgs_, PeerProcessed, 0)

\* Two instances that share their x axis are both inside a push call, each
\* has accumulated a sample, and a query is reading the first one.
C11_Witness ==
    /\ peer.x_ = x_
    /\ pc = "push_linear"
    /\ idx = 1
    /\ peer.pc = "push_nearest"
    /\ peer.idx = 1
    /\ TotalCount(acc_) = 4
    /\ TotalCount(peer.acc_) = 1
    /\ seen # NoView
    /\ seen.of = "first"

\* The array a query for func returns on the accumulators m.
ViewOf(func, m) ==
    [shape |-> <<m.rows, m.cols>>,
     data |-> [c \in Cells(m) |-> Extract(func, m.data[c])]]

\* The accumulators with the first n samples of hist accumulated, each into
\* all its cells, and no other.
Whole(n) ==
    RunAlone(Matrix(x_.size, y_.size), x_, y_, wgs_, SubSeq(hist, 1, n), 0)

\* C12: the array a statistic query returns, from another thread during a
\* push call included, shows each sample of a linear push either in all four
\* of its corner cells or in none: it is the array of the accumulators with
\* the sample the loop is at either not accumulated or wholly accumulated.
C12_NoPartialView ==
    seen # NoView =>
        \E n \in {Len(Processed), Len(Processed) + 1} :
            /\ n <= Len(hist)
            /\ seen.view = ViewOf(seen.func, Whole(n))

\* With the loop between two samples, the accumulators are those of the
\* samples processed, each wholly accumulated.
StagesAgree ==
    stage = 0 => acc_ = Whole(Len(Processed))

====
